---------------------------- MODULE Spec2Model ----------------------------
(***************************************************************************)
(* The chat pipeline of the trading simulator's Next.js API:                *)
(*   - src/app/api/trading/chat/route.ts  (POST: one chat turn, the        *)
(*     in-memory history, classifier, retrieval, completion stream)        *)
(*   - the history route (GET / POST / DELETE over its own in-memory list) *)
(* Texts are strings; concatenation is \o.  A falsy JavaScript string      *)
(* (undefined, null, '') is the empty string "".                           *)
(***************************************************************************)
EXTENDS Integers, Sequences, FiniteSets, TLC

(***************************************************************************)
(* Program constants.                                                      *)
(***************************************************************************)
\* storeChatMessage / history POST: "Keep only last 100 messages"
HistoryCap == 100
\* fetchChatHistory / history GET: "Return the last 50 messages"
ReadLimit == 50

(***************************************************************************)
(* Bounds of the model.                                                    *)
(***************************************************************************)
\* chunks the completion stream may deliver in one turn
MaxChunks == 2
\* lines in one chunk of the completion stream
MaxLines == 2
\* results in one payload of the retrieval provider
MaxResults == 2
\* requests to the history route
MaxPosts == 2
\* results in a large payload of the retrieval provider
ManyResults == 11
\* submits of the chat client that go through
MaxTurns == 2
\* frames the chat route emits in answer to one submit
MaxFrames == 2

VARIABLES
    inMemoryChatHistory,  \* chat route: let inMemoryChatHistory: ChatMessage[]
    chatHistory,          \* history route: let chatHistory: {...}[]
    clock,                \* source of generateId() and new Date()
    chatAppended,         \* history: messages appended to inMemoryChatHistory since last emptied
    routeAppended,        \* history: messages appended to chatHistory since last emptied
    posts,                \* number of requests the history route has handled
    routeResponse,        \* what the history route returned last
    pc,                   \* where the chat turn (POST of the chat route) stands
    body,                 \* the parsed request body of the turn
    userQuery,            \* POST: const userQuery
    contextAnalysis,      \* POST: const contextAnalysis
    contextData,          \* POST: const contextData
    response,             \* what POST returned to the caller
    classifierPrompt,     \* getContextualizedPrompt: the variable part of its prompt
    classifierReply,      \* getContextualizedPrompt: what its fetch came back with
    searchCalls,          \* history: queries searchBackend was called with in the turn
    searchReply,          \* searchBackend: what its fetch came back with
    searchOutcome,        \* buildContext: const searchResults, and whether the call threw
    completionReply,      \* askOllama: what its fetch came back with
    chunks,               \* number of chunks the completion stream has delivered
    received,             \* history: lines the completion stream has delivered, in order
    emitted,              \* frames enqueued on the caller-facing stream, in order
    turnStored,           \* history: messages the turn's stream has stored
    split,                \* history: the line of the completion stream cut by a chunk boundary
    proxyPc,              \* where the request to the plain chat route (api/chat) stands
    proxyChunks,          \* number of chunks its completion stream has delivered
    proxyReceived,        \* history: lines its completion stream has delivered, in order
    proxyEmitted,         \* frames enqueued on its caller-facing stream, in order
    stages,               \* history: the stages of POST the turn has started, in order
    recentHistory,        \* GET: const recentHistory of the last read
    readFrom,             \* history: the messages appended to the store that GET read
    otherPc,              \* where a second, concurrent POST of the chat route stands
    otherStored,          \* history: messages the second POST has stored
    clearedAt,            \* history: where the turn stood when a concurrent clear_history ran
    messages,             \* ChatProvider: const [messages, setMessages]
    isProcessing,         \* ChatProvider: const [isProcessing, setIsProcessing]
    clientNow,            \* the chat client's Date.now()
    turns                 \* GlobalChat: the calls of handleSubmit that went through

historyVars == <<inMemoryChatHistory, chatHistory, clock, chatAppended, routeAppended,
                 posts, routeResponse>>
turnVars == <<pc, body, userQuery, contextAnalysis, contextData, response>>
ghostVars == <<classifierPrompt, classifierReply, searchCalls, searchReply, searchOutcome,
               completionReply>>
streamVars == <<chunks, received, emitted, turnStored, split>>
proxyVars == <<proxyPc, proxyChunks, proxyReceived, proxyEmitted>>
readVars == <<recentHistory, readFrom>>
otherVars == <<otherPc, otherStored, clearedAt>>
clientVars == <<messages, isProcessing, clientNow, turns>>
serverVars == <<historyVars, turnVars, ghostVars, streamVars, proxyVars, stages, readVars,
                otherVars>>
vars == <<historyVars, turnVars, ghostVars, streamVars, proxyVars, stages, readVars, otherVars,
          clientVars>>

(***************************************************************************)
(* Sequences.                                                              *)
(***************************************************************************)
\* Array.prototype.slice(-n), n > 0
SliceLast(s, n) == IF Len(s) <= n THEN s ELSE SubSeq(s, Len(s) - n + 1, Len(s))

Last(s) == s[Len(s)]

RECURSIVE ConcatContents(_)
\* the contents of a sequence of frames or messages, joined in order
ConcatContents(s) ==
    IF s = <<>> THEN "" ELSE s[1].content \o ConcatContents(Tail(s))

(***************************************************************************)
(* History Store.                                                          *)
(***************************************************************************)
\* const newMessage = { id: generateId(), role, content, timestamp: ... }
\* now: the value generateId() and new Date() yield at the call
NewMessage(now, role, content) ==
    [id |-> now, role |-> role, content |-> content, timestamp |-> now]

\* PushAndTrim keeping the head of the list: slice(0, 100) for slice(-100)
PushAndTrimKeepsHead(history, msg) ==
    LET pushed == Append(history, msg)
    IN  IF Len(pushed) > HistoryCap THEN SubSeq(pushed, 1, HistoryCap) ELSE pushed

\* after push: if (length > 100) history = history.slice(-100)
PushAndTrim(history, msg) ==
    LET pushed == Append(history, msg)
    IN  IF Len(pushed) > HistoryCap THEN SliceLast(pushed, HistoryCap) ELSE pushed

\* storeChatMessage writing over the newest message instead of pushing: what
\* a store working on a stale copy of the list would leave
StoreChatMessageOverwrites(history, now, role, content) ==
    IF history = <<>>
    THEN <<NewMessage(now, role, content)>>
    ELSE [history EXCEPT ![Len(history)] = NewMessage(now, role, content)]

\* storeChatMessage(role, content): the new value of inMemoryChatHistory
StoreChatMessage(history, now, role, content) ==
    PushAndTrim(history, NewMessage(now, role, content))

\* fetchChatHistory keeping the head of the list: slice(0, 50) for slice(-50)
FetchChatHistoryHead(history) ==
    IF Len(history) <= ReadLimit THEN history ELSE SubSeq(history, 1, ReadLimit)

\* fetchChatHistory(): inMemoryChatHistory.slice(-50)
FetchChatHistory(history) == SliceLast(history, ReadLimit)

\* a history holding k earlier messages (ids 1..k), as k appends leave it
OldMessage(i) ==
    [id |-> i, role |-> IF i % 2 = 1 THEN "user" ELSE "assistant",
     content |-> "old", timestamp |-> i]

Prefill(k) == [i \in 1..k |-> OldMessage(i)]

\* sizes the histories start with: empty, one short of the cap, and full
PrefillSizes == {0, HistoryCap - 1, HistoryCap}


(***************************************************************************)
(* Classifier.                                                             *)
(***************************************************************************)
QueryTypes == {"HISTORY_QUERY", "FOLLOW_UP", "NEW_TOPIC", "MIXED"}

\* responseStyle of a parsed classification; defined = FALSE: the field is missing
Style(recap, focus, connect) ==
    [defined |-> TRUE, includeHistoryRecap |-> recap,
     focusOnNewInfo |-> focus, connectPastToPresent |-> connect]

NoStyle ==
    [defined |-> FALSE, includeHistoryRecap |-> FALSE,
     focusOnNewInfo |-> FALSE, connectPastToPresent |-> FALSE]

\* a JSON value the classifier's text parses to; isObject = FALSE: null
Analysis(type, explanation, query, summarize, style) ==
    [isObject |-> TRUE, queryType |-> type, explanation |-> explanation,
     searchQuery |-> query, shouldSummarizeInResponse |-> summarize,
     responseStyle |-> style]

NullAnalysis ==
    [isObject |-> FALSE, queryType |-> "", explanation |-> "",
     searchQuery |-> "", shouldSummarizeInResponse |-> FALSE,
     responseStyle |-> NoStyle]

\* the classification the prompt asks the model for, one per query type
WellFormed(type, query) ==
    Analysis(type, "model", query, type = "HISTORY_QUERY",
             Style(type = "HISTORY_QUERY",
                   type \in {"NEW_TOPIC", "MIXED"},
                   type \in {"FOLLOW_UP", "MIXED"}))

\* what JSON.parse(data.response) can be given: text that does not parse, or
\* text that parses to a classification, to null, to an object without
\* responseStyle, or to an object with an unknown queryType
ModelOutputs ==
    {[parses |-> FALSE, value |-> NullAnalysis]}
    \cup {[parses |-> TRUE, value |-> WellFormed(t, q)] :
             t \in QueryTypes, q \in {"", "refined"}}
    \cup {[parses |-> TRUE, value |-> NullAnalysis],
          [parses |-> TRUE,
           value |-> Analysis("NEW_TOPIC", "model", "refined", FALSE, NoStyle)],
          [parses |-> TRUE,
           value |-> Analysis("OTHER", "model", "refined", FALSE,
                              Style(FALSE, TRUE, FALSE))]}

\* how the call to /api/generate can come back
ClassifierReplies ==
    {[kind |-> k, output |-> [parses |-> FALSE, value |-> NullAnalysis]] :
        k \in {"unreachable", "notOk", "badBody"}}
    \cup {[kind |-> "ok", output |-> o] : o \in ModelOutputs}

\* fetch rejects, !response.ok, response.json() or JSON.parse throws
ClassifierThrows(reply) == reply.kind # "ok" \/ ~reply.output.parses

\* DefaultAnalysis without the user's query as searchQuery
DefaultAnalysisDropsQuery(query) ==
    Analysis("NEW_TOPIC", "Default to new topic due to error", "", FALSE,
             Style(FALSE, TRUE, FALSE))

\* the catch block of getContextualizedPrompt
DefaultAnalysis(query) ==
    Analysis("NEW_TOPIC", "Default to new topic due to error", query, FALSE,
             Style(FALSE, TRUE, FALSE))

\* getContextualizedPrompt(userQuery, chatHistory), given the reply of its fetch
GetContextualizedPrompt(query, reply) ==
    IF ClassifierThrows(reply) THEN DefaultAnalysis(query) ELSE reply.output.value

\* the variable part of the prompt getContextualizedPrompt sends
ClassifierPrompt(query, history) ==
    [historyLength |-> Len(history),
     lastMessage |-> IF Len(history) > 0 THEN Last(history).content ELSE "None",
     currentQuery |-> query]

(***************************************************************************)
(* Retrieval Gateway.                                                      *)
(***************************************************************************)
\* the i-th result of a provider payload; source and metadata may be missing ("")
ProviderResult(i) ==
    [title |-> "T" \o ToString(i), url |-> "u" \o ToString(i),
     content |-> "c" \o ToString(i),
     source |-> IF i % 2 = 0 THEN "reuters" ELSE "",
     metadata |-> IF i % 2 = 0 THEN "article" ELSE ""]

\* a payload: results missing, results not an array, or an array of n results
Payloads ==
    {[shape |-> "noResults", results |-> <<>>],
     [shape |-> "notArray", results |-> <<>>]}
    \cup {[shape |-> "array", results |-> [i \in 1..n |-> ProviderResult(i)]] :
             n \in (0..MaxResults) \cup {ManyResults}}

\* how the call to /search/search can come back
SearchReplies ==
    {[kind |-> k, payload |-> [shape |-> "noResults", results |-> <<>>]] :
        k \in {"networkError", "notOk", "badBody"}}
    \cup {[kind |-> "ok", payload |-> p] : p \in Payloads}

\* data.results.map(...): source and metadata get their defaults
NormalizeResult(r) ==
    [title |-> r.title, url |-> r.url, content |-> r.content,
     source |-> IF r.source = "" THEN "searxng" ELSE r.source,
     metadata |-> IF r.metadata = "" THEN "news" ELSE r.metadata]

\* SearchBackend without its try/catch: a failed call raises, and a payload's
\* results are mapped whatever they are
SearchBackendUncaught(reply) ==
    IF reply.kind # "ok"
    THEN [threw |-> TRUE, results |-> <<>>]
    ELSE IF reply.payload.shape = "noResults"
         THEN [threw |-> TRUE, results |-> <<>>]
         ELSE [threw |-> FALSE,
               results |-> [i \in 1..Len(reply.payload.results) |->
                               NormalizeResult(reply.payload.results[i])]]

\* searchBackend(query), given the reply of its fetch: what its caller gets
SearchBackend(reply) ==
    IF reply.kind # "ok"
    THEN [threw |-> FALSE, results |-> <<>>]
    ELSE IF reply.payload.shape = "array"
         THEN [threw |-> FALSE,
               results |-> [i \in 1..Len(reply.payload.results) |->
                               NormalizeResult(reply.payload.results[i])]]
         ELSE [threw |-> FALSE, results |-> <<>>]

(***************************************************************************)
(* Context Assembler and Prompt Builder.                                   *)
(***************************************************************************)
EmptyContext == [framing |-> "none", history |-> <<>>, documents |-> <<>>]

\* buildContext reads a property of contextAnalysis: a TypeError when it is null
BuildContextThrows(analysis) == ~analysis.isObject

\* buildContext up to the retrieval call: the history, framed by query type
HistoryContext(analysis, history) ==
    IF history = <<>>
    THEN EmptyContext
    ELSE [framing |-> IF analysis.queryType = "HISTORY_QUERY"
                      THEN "Chat History to Summarize" ELSE "Previous Context",
          history |-> [i \in 1..Len(history) |->
                          [index |-> i, role |-> history[i].role,
                           content |-> history[i].content]],
          documents |-> <<>>]

\* NeedsSearch without the test of the query type
NeedsSearchAlways(analysis) == TRUE

\* if (contextAnalysis.queryType !== 'HISTORY_QUERY') searchBackend(...)
NeedsSearch(analysis) == analysis.queryType # "HISTORY_QUERY"

\* SearchQueryOf without the fallback to the user's query
SearchQueryOfNoFallback(analysis, query) == analysis.searchQuery

\* contextAnalysis.searchQuery || userQuery
SearchQueryOf(analysis, query) ==
    IF analysis.searchQuery # "" THEN analysis.searchQuery ELSE query

\* WithDocuments numbering from 0: index for index + 1
WithDocumentsFromZero(context, results) ==
    [context EXCEPT !.documents =
        [i \in 1..Len(results) |->
            [index |-> i - 1, title |-> results[i].title,
             content |-> results[i].content, url |-> results[i].url]]]

\* buildContext after the retrieval call: [Market Info i] ... Link: [i] url
WithDocuments(context, results) ==
    [context EXCEPT !.documents =
        [i \in 1..Len(results) |->
            [index |-> i, title |-> results[i].title,
             content |-> results[i].content, url |-> results[i].url]]]

\* askOllama reads analysis.responseStyle.includeHistoryRecap: a TypeError when
\* analysis is null or has no responseStyle
AskOllamaThrows(analysis) == ~analysis.isObject \/ ~analysis.responseStyle.defined

\* the stages askOllama starts: it builds its prompts, then opens the
\* completion call unless building them threw
AskOllamaStages(analysis) ==
    IF AskOllamaThrows(analysis)
    THEN <<"prompt builder">>
    ELSE <<"prompt builder", "streaming client">>

\* how the call to /api/chat can come back
CompletionReplies == {"unreachable", "notOk", "ok"}


(***************************************************************************)
(* Streaming Completion Client and Stream Reassembler.                     *)
(***************************************************************************)
\* the content of the k-th line of a completion stream
Tok(k) == "t" \o ToString(k)

\* a line of the completion stream, the k-th of its stream: a delta, the final
\* line with or without content, or text that JSON.parse rejects
LineKinds == {"delta", "bad", "doneText", "doneEmpty"}

Line(kind, k) ==
    [valid |-> kind # "bad",
     content |-> IF kind \in {"delta", "doneText"} THEN Tok(k) ELSE "",
     done |-> kind \in {"doneText", "doneEmpty"}]

IsDoneKind(kind) == kind \in {"doneText", "doneEmpty"}

\* a chunk: 1..MaxLines lines; the completion API ends its stream with the
\* done line, so a done line is the last line of its chunk
ChunkShapes ==
    {c \in UNION {[1..n -> LineKinds] : n \in 1..MaxLines} :
        \A i \in 1..(Len(c) - 1) : ~IsDoneKind(c[i])}

\* the lines of a chunk of shape c that follows n earlier lines
ChunkLines(c, n) == [i \in 1..Len(c) |-> Line(c[i], n + i)]

\* a piece of a line that a chunk boundary cut in two: not JSON by itself
Fragment(k) == Line("bad", k)

\* const formattedChunk = { choices: [{ delta: { content }, finish_reason }] }
FormatChunk(line) ==
    [content |-> line.content,
     finish_reason |-> IF line.done THEN "stop" ELSE "null"]

\* the frame the catch block of transform enqueues
ErrorFrame == [content |-> "", finish_reason |-> "error"]

\* if (data.done && data.message?.content)
StoresOnLine(line) == line.done /\ line.content # ""

RECURSIVE Transform(_)
\* transform(chunk, controller): the frames it enqueues and the contents it
\* stores, in order.  JSON.parse throws on a bad line: the catch block enqueues
\* the error frame and the rest of the chunk is not looked at.
Transform(lines) ==
    IF lines = <<>>
    THEN [frames |-> <<>>, stores |-> <<>>]
    ELSE LET line == Head(lines)
         IN  IF ~line.valid
             THEN [frames |-> <<ErrorFrame>>, stores |-> <<>>]
             ELSE LET rest == Transform(Tail(lines))
                  IN  [frames |-> <<FormatChunk(line)>> \o rest.frames,
                       stores |-> (IF StoresOnLine(line)
                                   THEN <<line.content>> ELSE <<>>)
                                  \o rest.stores]

RECURSIVE StoreAll(_, _, _)
\* storeChatMessage('assistant', c) for each c of contents, from time now on
StoreAll(history, now, contents) ==
    IF contents = <<>>
    THEN history
    ELSE StoreAll(StoreChatMessage(history, now, "assistant", Head(contents)),
                  now + 1, Tail(contents))

\* the messages those calls create
StoredMessages(now, contents) ==
    [i \in 1..Len(contents) |-> NewMessage(now + i - 1, "assistant", contents[i])]


(***************************************************************************)
(* The chat client: ChatProvider and GlobalChat.                           *)
(***************************************************************************)
\* addMessage(type, content, metadata) at time now; metaId = 0: no metadata
AddMessage(msgs, now, type, content, metaId) ==
    Append(msgs, [id |-> IF metaId # 0 THEN metaId ELSE now,
                  type |-> type, content |-> content, timestamp |-> now,
                  metaId |-> metaId])

\* updateMessage matching on the type of the message
UpdateMessageAllBots(msgs, id, content) ==
    [i \in 1..Len(msgs) |->
        IF msgs[i].type = "bot" THEN [msgs[i] EXCEPT !.content = content] ELSE msgs[i]]

\* updateMessage(id, content): prev.map(message =>
\*     message.metadata?.id === id ? { ...message, content } : message)
UpdateMessage(msgs, id, content) ==
    [i \in 1..Len(msgs) |->
        IF msgs[i].metaId = id THEN [msgs[i] EXCEPT !.content = content] ELSE msgs[i]]

\* CanSubmit without the test of isProcessing
CanSubmitWhileProcessing(text, processing) == text # ""

\* handleSubmit: if (!input.trim() || isProcessing) return
CanSubmit(text, processing) == text # "" /\ ~processing

\* the frames the chat route can enqueue as the k-th of a response, as far as
\* the client tells them apart: with content, or without
ClientFrames(k) ==
    {FormatChunk(Line(kind, k)) : kind \in {"delta", "doneEmpty"}}

\* what reader.read() can yield, the response having sent n frames: the
\* route enqueues JSON.stringify(frame) with nothing between two frames, and
\* the transport cuts the bytes where it likes: one frame, two frames in one
\* chunk, or the first piece of a frame
ReadChunks(n) ==
    {<<[frame |-> f, part |-> part]>> :
        f \in ClientFrames(n + 1), part \in {"whole", "head"}}
    \cup {<<[frame |-> f, part |-> "whole"], [frame |-> g, part |-> "whole"]>> :
             f \in ClientFrames(n + 1), g \in ClientFrames(n + 2)}

\* JSON.parse(line) of the only line of a chunk (the text holds no newline):
\* it succeeds when the chunk is exactly one frame
Parses(chunk) == Len(chunk) = 1 /\ chunk[1].part = "whole"

\* if (data.choices?.[0]?.delta?.content) fullResponse += content
Accumulate(fullResponse, chunk) ==
    IF Parses(chunk) /\ chunk[1].frame.content # ""
    THEN fullResponse \o chunk[1].frame.content
    ELSE fullResponse

\* the frames that a chunk brings to its end
FramesOf(chunk) ==
    [i \in 1..Len(chunk) |-> chunk[i].frame]

(***************************************************************************)
(* Requests and responses.                                                 *)
(***************************************************************************)
\* what request.json() yields in the chat route: a rejection, a
\* clear_history request, or a chat request (message "" : the field is missing)
Bodies ==
    {[kind |-> "invalid", message |-> ""], [kind |-> "clear", message |-> ""],
     [kind |-> "chat", message |-> ""], [kind |-> "chat", message |-> "q"]}

\* the bodies POSTed to the history route ("" : the field is missing)
PostBodies == [role : {"", "user", "assistant"}, content : {"", "hi"}]

NoResponse == [kind |-> "none", status |-> 0, detail |-> ""]
\* NextResponse.json({ message: 'Chat history cleared' })
ClearedResponse == [kind |-> "json", status |-> 200, detail |-> "Chat history cleared"]
\* new NextResponse(response.body?.pipeThrough(transformStream), ...)
StreamResponse == [kind |-> "stream", status |-> 200, detail |-> ""]
\* the catch block of POST: { error, details: error.message }, status 500
ErrorResponse(message) == [kind |-> "error", status |-> 500, detail |-> message]

NoSplit == [state |-> "none", line |-> Line("bad", 0)]
NoBody == [kind |-> "none", message |-> ""]
NoPrompt == [historyLength |-> 0, lastMessage |-> "", currentQuery |-> ""]
NoClassifierReply == [kind |-> "none", output |-> [parses |-> FALSE, value |-> NullAnalysis]]
NoSearchReply == [kind |-> "none", payload |-> [shape |-> "noResults", results |-> <<>>]]
NoOutcome == [threw |-> FALSE, results |-> <<>>]
NoContextData == [context |-> EmptyContext, analysis |-> NullAnalysis]

Init ==
    /\ \E k \in PrefillSizes :
          /\ inMemoryChatHistory = Prefill(k)
          /\ chatHistory = Prefill(k)
          /\ chatAppended = Prefill(k)
          /\ routeAppended = Prefill(k)
          /\ clock = k + 1
    /\ posts = 0
    /\ routeResponse = "none"
    /\ pc = "idle"
    /\ body = NoBody
    /\ userQuery = ""
    /\ contextAnalysis = NullAnalysis
    /\ contextData = NoContextData
    /\ response = NoResponse
    /\ classifierPrompt = NoPrompt
    /\ classifierReply = NoClassifierReply
    /\ searchCalls = <<>>
    /\ searchReply = NoSearchReply
    /\ searchOutcome = NoOutcome
    /\ completionReply = "none"
    /\ chunks = 0
    /\ received = <<>>
    /\ emitted = <<>>
    /\ turnStored = <<>>
    /\ split = NoSplit
    /\ proxyPc = "idle"
    /\ proxyChunks = 0
    /\ proxyReceived = <<>>
    /\ proxyEmitted = <<>>
    /\ stages = <<>>
    /\ recentHistory = <<>>
    /\ readFrom = <<>>
    /\ otherPc = "idle"
    /\ otherStored = <<>>
    /\ clearedAt = "none"
    /\ messages = AddMessage(<<>>, 1, "system", "Trading Assistant initialized.", 0)
    /\ isProcessing = FALSE
    /\ clientNow = 1
    /\ turns = <<>>

\* POST has returned the stream: the locals of the turn are gone (transform
\* closes over none of them)
DropLocals ==
    /\ userQuery' = ""
    /\ contextAnalysis' = NullAnalysis
    /\ contextData' = NoContextData
    /\ classifierPrompt' = NoPrompt
    /\ classifierReply' = NoClassifierReply
    /\ searchCalls' = <<>>
    /\ searchReply' = NoSearchReply
    /\ searchOutcome' = NoOutcome

\* an exception reaches the catch block of POST
ReturnError(message) ==
    /\ pc' = "returned"
    /\ response' = ErrorResponse(message)

(***************************************************************************)
(* The three routes are modules of their own that share no state (each has *)
(* its own history list, or none), so their handlers commute; a behaviour   *)
(* exercises one route.                                                    *)
(***************************************************************************)
OnlyChatRoute == posts = 0 /\ proxyPc = "idle" /\ turns = <<>>
OnlyHistoryRoute == pc = "idle" /\ otherPc = "idle" /\ proxyPc = "idle" /\ turns = <<>>
OnlyProxyRoute == pc = "idle" /\ otherPc = "idle" /\ posts = 0 /\ turns = <<>>
\* the chat client is followed on its own, against every answer the chat
\* route can give
OnlyClient ==
    /\ pc = "idle" /\ otherPc = "idle" /\ posts = 0 /\ proxyPc = "idle"
    /\ chatAppended = <<>> /\ recentHistory = <<>>

(***************************************************************************)
(* The chat route: POST.                                                   *)
(***************************************************************************)
\* POST up to its first suspension after the body is parsed: a body that is
\* not JSON goes to the catch block, clear_history empties the history,
\* anything else is a chat turn whose user message is stored
PostChat(b) ==
    /\ pc = "idle"
    /\ OnlyChatRoute
    /\ body' = b
    /\ UNCHANGED <<proxyVars, clientVars, readVars, otherVars,
                   chatHistory, routeAppended, posts, routeResponse, streamVars,
                   contextAnalysis, contextData, ghostVars>>
    /\ CASE b.kind = "invalid" ->
               /\ ReturnError("invalid body")
               /\ UNCHANGED <<inMemoryChatHistory, chatAppended, clock, userQuery, stages>>
         [] b.kind = "clear" ->
               /\ inMemoryChatHistory' = <<>>
               /\ chatAppended' = <<>>
               /\ pc' = "returned"
               /\ response' = ClearedResponse
               /\ UNCHANGED <<clock, userQuery, stages>>
         [] b.kind = "chat" ->
               /\ userQuery' = b.message
               /\ inMemoryChatHistory' =
                      StoreChatMessage(inMemoryChatHistory, clock, "user", b.message)
               /\ chatAppended' = Append(chatAppended, NewMessage(clock, "user", b.message))
               /\ clock' = clock + 1
               /\ stages' = Append(stages, "append user")
               /\ pc' = "awaitStore"
               /\ UNCHANGED response

\* CallClassifier, enabled again while its call is pending
CallClassifierAgain ==
    /\ pc \in {"awaitStore", "classifying"}
    /\ classifierPrompt' =
           ClassifierPrompt(userQuery, FetchChatHistory(inMemoryChatHistory))
    /\ stages' = Append(stages, "classifier")
    /\ pc' = "classifying"
    /\ UNCHANGED <<proxyVars, clientVars, readVars, otherVars, historyVars, body, userQuery,
                   contextAnalysis, contextData, response, classifierReply, searchCalls,
                   searchReply, searchOutcome, completionReply, streamVars>>

\* const chatHistory = await fetchChatHistory(); getContextualizedPrompt sends its prompt
CallClassifier ==
    /\ pc = "awaitStore"
    /\ classifierPrompt' =
           ClassifierPrompt(userQuery, FetchChatHistory(inMemoryChatHistory))
    /\ stages' = Append(stages, "classifier")
    /\ pc' = "classifying"
    /\ UNCHANGED <<proxyVars, clientVars, readVars, otherVars,
                   historyVars, body, userQuery, contextAnalysis, contextData, response,
                   classifierReply, searchCalls, searchReply, searchOutcome,
                   completionReply, streamVars>>

\* askOllama(userQuery, contextData) up to its fetch: building the system
\* prompt throws, or the completion call is under way
CallAskOllama(analysis) ==
    IF AskOllamaThrows(analysis)
    THEN ReturnError("TypeError")
    ELSE pc' = "completing" /\ UNCHANGED response

\* the classifier call comes back; buildContext runs up to its retrieval call,
\* or, when it makes none, to its end and askOllama runs up to its fetch
ClassifierReply(reply) ==
    /\ pc = "classifying"
    /\ classifierReply' = reply
    /\ LET analysis == GetContextualizedPrompt(userQuery, reply)
           history == FetchChatHistory(inMemoryChatHistory)
           threw == BuildContextThrows(analysis)
       IN  /\ contextAnalysis' = analysis
           /\ contextData' =
                  [context |-> IF threw THEN EmptyContext
                               ELSE HistoryContext(analysis, history),
                   analysis |-> analysis]
           /\ IF ~threw /\ NeedsSearch(analysis)
              THEN /\ pc' = "searching"
                   /\ searchCalls' = Append(searchCalls, SearchQueryOf(analysis, userQuery))
                   /\ stages' = Append(stages, "context assembler")
                   /\ UNCHANGED response
              ELSE /\ CallAskOllama(analysis)
                   /\ stages' = Append(stages, "context assembler")
                                    \o AskOllamaStages(analysis)
                   /\ UNCHANGED searchCalls
    /\ UNCHANGED <<proxyVars, clientVars, readVars, otherVars,
                   historyVars, body, userQuery, classifierPrompt, searchReply,
                   searchOutcome, completionReply, streamVars>>

\* the retrieval call comes back; buildContext runs to its end and askOllama
\* runs up to its fetch
SearchReply(reply) ==
    /\ pc = "searching"
    /\ searchReply' = reply
    /\ LET outcome == SearchBackend(reply)
       IN  /\ searchOutcome' = outcome
           /\ contextData' =
                  IF outcome.threw
                  THEN [contextData EXCEPT !.context = EmptyContext]
                  ELSE IF Len(outcome.results) > 0
                  THEN [contextData EXCEPT
                           !.context = WithDocuments(@, outcome.results)]
                  ELSE contextData
    /\ CallAskOllama(contextAnalysis)
    /\ stages' = stages \o AskOllamaStages(contextAnalysis)
    /\ UNCHANGED <<proxyVars, clientVars, readVars, otherVars,
                   historyVars, body, userQuery, contextAnalysis, classifierPrompt,
                   classifierReply, searchCalls, completionReply, streamVars>>

\* the completion call comes back: a rejected fetch or a non-OK status goes to
\* the catch block of POST, otherwise POST returns the piped stream
CompletionReply(reply) ==
    /\ pc = "completing"
    /\ completionReply' = reply
    /\ CASE reply = "unreachable" ->
               /\ ReturnError("fetch failed")
               /\ UNCHANGED <<userQuery, contextAnalysis, contextData, classifierPrompt,
                              classifierReply, searchCalls, searchReply, searchOutcome,
                              stages>>
         [] reply = "notOk" ->
               /\ ReturnError("Ollama API error")
               /\ UNCHANGED <<userQuery, contextAnalysis, contextData, classifierPrompt,
                              classifierReply, searchCalls, searchReply, searchOutcome,
                              stages>>
         [] reply = "ok" ->
               /\ pc' = "streaming"
               /\ response' = StreamResponse
               /\ stages' = Append(stages, "reassembler")
               /\ DropLocals
    /\ UNCHANGED <<proxyVars, clientVars, readVars, otherVars,
                   historyVars, body, streamVars>>

\* whether the completion stream has delivered its done line
SawDone == \E i \in 1..Len(received) : received[i].valid /\ received[i].done

\* the completion stream delivers a chunk of shape c and transform handles it
UpstreamChunk(c) ==
    /\ pc = "streaming"
    /\ chunks < MaxChunks
    /\ ~SawDone
    /\ split.state # "head"
    /\ LET lines == ChunkLines(c, Len(received))
           t == Transform(lines)
           stored == StoredMessages(clock, t.stores)
       IN  /\ received' = received \o lines
           /\ emitted' = emitted \o t.frames
           /\ inMemoryChatHistory' = StoreAll(inMemoryChatHistory, clock, t.stores)
           /\ chatAppended' = chatAppended \o stored
           /\ turnStored' = turnStored \o stored
           /\ clock' = clock + Len(t.stores)
    /\ chunks' = chunks + 1
    /\ UNCHANGED <<proxyVars, clientVars, readVars, otherVars, stages,
                   chatHistory, routeAppended, posts, routeResponse, turnVars,
                   ghostVars, split>>

\* transform handles a chunk that holds one piece of a line: decoder.decode,
\* split('\n') and JSON.parse work on the chunk alone, nothing is kept
\* from one call of transform to the next
DeliverFragment ==
    LET lines == <<Fragment(Len(received) + 1)>>
        t == Transform(lines)
        stored == StoredMessages(clock, t.stores)
    IN  /\ received' = received \o lines
        /\ emitted' = emitted \o t.frames
        /\ inMemoryChatHistory' = StoreAll(inMemoryChatHistory, clock, t.stores)
        /\ chatAppended' = chatAppended \o stored
        /\ turnStored' = turnStored \o stored
        /\ clock' = clock + Len(t.stores)
        /\ chunks' = chunks + 1

\* the transport ends a chunk inside a line of the given kind: the chunk
\* holds the first piece of the line
UpstreamSplitHead(kind) ==
    /\ pc = "streaming"
    /\ chunks < MaxChunks
    /\ ~SawDone
    /\ split.state = "none"
    /\ kind # "bad"
    /\ split' = [state |-> "head", line |-> Line(kind, Len(received) + 1)]
    /\ DeliverFragment
    /\ UNCHANGED <<proxyVars, clientVars, readVars, otherVars, stages,
                   chatHistory, routeAppended, posts, routeResponse, turnVars,
                   ghostVars>>

\* the next chunk holds the rest of that line
UpstreamSplitTail ==
    /\ pc = "streaming"
    /\ chunks < MaxChunks
    /\ split.state = "head"
    /\ split' = [split EXCEPT !.state = "whole"]
    /\ DeliverFragment
    /\ UNCHANGED <<proxyVars, clientVars, readVars, otherVars, stages,
                   chatHistory, routeAppended, posts, routeResponse, turnVars,
                   ghostVars>>

\* the completion stream ends: the piped stream closes (transformStream has no flush)
UpstreamClose ==
    /\ pc = "streaming"
    /\ pc' = "closed"
    /\ UNCHANGED <<proxyVars, clientVars, readVars, otherVars, stages,
                   historyVars, body, userQuery, contextAnalysis, contextData, response,
                   ghostVars, streamVars>>

\* the completion stream fails before its done line: the piped stream errors
UpstreamError ==
    /\ pc = "streaming"
    /\ ~SawDone
    /\ pc' = "errored"
    /\ UNCHANGED <<proxyVars, clientVars, readVars, otherVars, stages,
                   historyVars, body, userQuery, contextAnalysis, contextData, response,
                   ghostVars, streamVars>>

\* the caller goes away while the stream is open: the piped stream is
\* cancelled, which cancels the completion stream; transformStream has no
\* cancel or flush handler and nothing runs in the route
CallerDisconnect ==
    /\ pc = "streaming"
    /\ pc' = "cancelled"
    /\ UNCHANGED <<proxyVars, clientVars, readVars, otherVars, stages, historyVars, body, userQuery,
                   contextAnalysis, contextData, response, ghostVars, streamVars>>

\* GET: NextResponse.json(await fetchChatHistory())
ChatGet ==
    /\ OnlyChatRoute
    /\ recentHistory' = FetchChatHistory(inMemoryChatHistory)
    /\ readFrom' = chatAppended
    /\ UNCHANGED <<proxyVars, clientVars, otherVars, stages, historyVars, turnVars, ghostVars, streamVars>>

\* a second POST of the chat route, running between the suspension points of
\* the turn: storeChatMessage('user', userQuery) once its body is parsed.
\* storeChatMessage has no await: each call runs to its end without giving
\* up the thread.
OtherPostChat ==
    /\ OnlyChatRoute
    /\ otherPc = "idle"
    /\ inMemoryChatHistory' = StoreChatMessage(inMemoryChatHistory, clock, "user", "q2")
    /\ chatAppended' = Append(chatAppended, NewMessage(clock, "user", "q2"))
    /\ otherStored' = Append(otherStored, NewMessage(clock, "user", "q2"))
    /\ clock' = clock + 1
    /\ otherPc' = "streaming"
    /\ UNCHANGED <<proxyVars, clientVars, readVars, stages, chatHistory, routeAppended, posts,
                   routeResponse, turnVars, ghostVars, streamVars, clearedAt>>

\* the stream of the second POST handles its done line:
\* storeChatMessage('assistant', data.message.content)
OtherSawDone ==
    /\ OnlyChatRoute
    /\ otherPc = "streaming"
    /\ inMemoryChatHistory' = StoreChatMessage(inMemoryChatHistory, clock, "assistant", "a2")
    /\ chatAppended' = Append(chatAppended, NewMessage(clock, "assistant", "a2"))
    /\ otherStored' = Append(otherStored, NewMessage(clock, "assistant", "a2"))
    /\ clock' = clock + 1
    /\ otherPc' = "done"
    /\ UNCHANGED <<proxyVars, clientVars, readVars, stages, chatHistory, routeAppended, posts,
                   routeResponse, turnVars, ghostVars, streamVars, clearedAt>>

\* a POST with type clear_history that arrives while the turn waits for the
\* classifier, the retrieval or the completion call, or for its stream
OtherClear ==
    /\ OnlyChatRoute
    /\ pc \in {"classifying", "searching", "completing", "streaming"}
    /\ clearedAt = "none"
    /\ clearedAt' = pc
    /\ inMemoryChatHistory' = <<>>
    /\ chatAppended' = <<>>
    /\ UNCHANGED <<proxyVars, clientVars, readVars, stages, chatHistory, routeAppended, posts,
                   routeResponse, clock, turnVars, ghostVars, streamVars, otherPc,
                   otherStored>>

(***************************************************************************)
(* The history route: GET, POST and DELETE.                                *)
(***************************************************************************)
\* GET: NextResponse.json(chatHistory.slice(-50))
HistoryGet ==
    /\ OnlyHistoryRoute
    /\ recentHistory' = SliceLast(chatHistory, ReadLimit)
    /\ readFrom' = routeAppended
    /\ UNCHANGED <<proxyVars, clientVars, otherVars, stages, historyVars, turnVars, ghostVars, streamVars>>

\* POST: a body without role or content gets status 400, any other is appended
HistoryPost(b) ==
    /\ OnlyHistoryRoute
    /\ posts < MaxPosts
    /\ posts' = posts + 1
    /\ IF b.role = "" \/ b.content = ""
       THEN /\ routeResponse' = "missing fields"
            /\ UNCHANGED <<chatHistory, routeAppended, clock>>
       ELSE /\ chatHistory' = PushAndTrim(chatHistory, NewMessage(clock, b.role, b.content))
            /\ routeAppended' = Append(routeAppended, NewMessage(clock, b.role, b.content))
            /\ clock' = clock + 1
            /\ routeResponse' = "message"
    /\ UNCHANGED <<proxyVars, clientVars, readVars, otherVars, stages,
                   inMemoryChatHistory, chatAppended, turnVars, ghostVars, streamVars>>

\* DELETE: chatHistory = []
HistoryDelete ==
    /\ OnlyHistoryRoute
    /\ posts < MaxPosts
    /\ posts' = posts + 1
    /\ chatHistory' = <<>>
    /\ routeAppended' = <<>>
    /\ routeResponse' = "cleared"
    /\ UNCHANGED <<proxyVars, clientVars, readVars, otherVars, stages,
                   inMemoryChatHistory, chatAppended, clock, turnVars, ghostVars,
                   streamVars>>

(***************************************************************************)
(* The plain chat route (api/chat): POST forwards the body to the          *)
(* completion API and pipes the reply through its own transform.           *)
(***************************************************************************)
RECURSIVE ProxyTransform(_)
\* transform(chunk, controller) of the plain chat route: the frames it
\* enqueues.  JSON.parse throws on a bad line: the catch block logs the error
\* and the rest of the chunk is not looked at.
ProxyTransform(lines) ==
    IF lines = <<>>
    THEN <<>>
    ELSE IF ~Head(lines).valid
         THEN <<>>
         ELSE <<FormatChunk(Head(lines))>> \o ProxyTransform(Tail(lines))

\* how POST gets to its stream: req.json() rejects, the fetch rejects, the
\* status is not OK (all three: status 500), or the reply is piped
ProxyOutcomes == {"invalid body", "unreachable", "notOk", "ok"}

ProxyPost(outcome) ==
    /\ proxyPc = "idle"
    /\ OnlyProxyRoute
    /\ proxyPc' = IF outcome = "ok" THEN "streaming" ELSE "failed"
    /\ UNCHANGED <<historyVars, clientVars, readVars, otherVars, stages, turnVars,
                   ghostVars, streamVars, proxyChunks,
                   proxyReceived, proxyEmitted>>

ProxySawDone ==
    \E i \in 1..Len(proxyReceived) : proxyReceived[i].valid /\ proxyReceived[i].done

\* the completion stream delivers a chunk of shape c and transform handles it
ProxyChunk(c) ==
    /\ proxyPc = "streaming"
    /\ proxyChunks < MaxChunks
    /\ ~ProxySawDone
    /\ LET lines == ChunkLines(c, Len(proxyReceived))
       IN  /\ proxyReceived' = proxyReceived \o lines
           /\ proxyEmitted' = proxyEmitted \o ProxyTransform(lines)
    /\ proxyChunks' = proxyChunks + 1
    /\ UNCHANGED <<historyVars, clientVars, readVars, otherVars, stages, turnVars,
                   ghostVars, streamVars, proxyPc>>

\* the completion stream ends, or fails before its done line
ProxyEnd(how) ==
    /\ proxyPc = "streaming"
    /\ how = "errored" => ~ProxySawDone
    /\ proxyPc' = how
    /\ UNCHANGED <<historyVars, clientVars, readVars, otherVars, stages, turnVars,
                   ghostVars, streamVars, proxyChunks,
                   proxyReceived, proxyEmitted>>

(***************************************************************************)
(* The chat client: handleSubmit of GlobalChat.                            *)
(***************************************************************************)
\* what fetch('/api/trading/chat') can come back with, other than a stream:
\* a rejection, a non-OK status, a response without a body
FetchFailures == {"rejected", "notOk", "noBody"}

\* how long after the last Date.now() of the client a failure is handled: in
\* the same millisecond or in the next
Delays == {0, 1}

\* Finally without setIsProcessing(false)
FinallyKeepsProcessing == UNCHANGED isProcessing

\* finally { setIsProcessing(false) ... }
Finally == isProcessing' = FALSE

\* catch (error) { addMessage('system', 'Sorry, ...', { id: Date.now().toString() }) }
Catch(d) ==
    /\ clientNow' = clientNow + d
    /\ messages' = AddMessage(messages, clientNow + d, "system",
                              "Sorry, I encountered an error processing your request.",
                              clientNow + d)

\* handleSubmit has returned: its locals fullResponse and reader are gone
Returned(turn, how) ==
    [turn EXCEPT !.pc = IF how = "done" THEN "done" ELSE "failed",
                 !.ended = how, !.fullResponse = "", !.sent = <<>>]

\* handleSubmit up to its fetch; the submit comes later than every id given so far
HandleSubmit(text) ==
    /\ OnlyClient
    /\ Len(turns) < MaxTurns
    /\ CanSubmit(text, isProcessing)
    /\ LET userMessageId == clientNow + 2
           botMessageId == userMessageId + 1
       IN  /\ messages' =
                  AddMessage(AddMessage(messages, userMessageId, "user", text, userMessageId),
                             userMessageId, "bot", "", botMessageId)
           /\ clientNow' = userMessageId
           /\ turns' = Append(turns, [pc |-> "fetching", botMessageId |-> botMessageId,
                                      fullResponse |-> "", sent |-> <<>>,
                                      ended |-> "none"])
    /\ isProcessing' = TRUE
    /\ UNCHANGED serverVars

\* the fetch comes back with a stream: const reader = response.body.getReader()
FetchOk(t) ==
    /\ turns[t].pc = "fetching"
    /\ turns' = [turns EXCEPT ![t].pc = "reading"]
    /\ UNCHANGED <<serverVars, messages, isProcessing, clientNow>>

\* the fetch rejects, or !response.ok, or there is no reader: catch and finally
FetchFail(t, failure, d) ==
    /\ turns[t].pc = "fetching"
    /\ turns' = [turns EXCEPT ![t] = Returned(@, failure)]
    /\ Catch(d)
    /\ Finally
    /\ UNCHANGED serverVars

\* one round of the read loop on a chunk
ReadLoop(t, chunk) ==
    LET fullResponse == Accumulate(turns[t].fullResponse, chunk)
    IN  /\ turns' = [turns EXCEPT
                        ![t].fullResponse = fullResponse,
                        ![t].sent = IF chunk[1].part = "tail"
                                    THEN @ ELSE @ \o FramesOf(chunk),
                        ![t].pc = IF chunk[1].part = "head"
                                  THEN "midFrame" ELSE "reading"]
        /\ messages' = IF Parses(chunk) /\ chunk[1].frame.content # ""
                       THEN UpdateMessage(messages, turns[t].botMessageId, fullResponse)
                       ELSE messages
        /\ UNCHANGED <<serverVars, isProcessing, clientNow>>

\* reader.read() yields a chunk that starts at the start of a frame
ClientRead(t, chunk) ==
    /\ turns[t].pc = "reading"
    /\ Len(turns[t].sent) + Len(chunk) <= MaxFrames
    /\ ReadLoop(t, chunk)

\* reader.read() yields the rest of the frame the last chunk ended in
ClientReadTail(t) ==
    /\ turns[t].pc = "midFrame"
    /\ ReadLoop(t, <<[frame |-> Last(turns[t].sent), part |-> "tail"]>>)

\* reader.read() yields done: break, then finally
ClientReadEnd(t) ==
    /\ turns[t].pc \in {"reading", "midFrame"}
    /\ turns' = [turns EXCEPT ![t] = Returned(@, "done")]
    /\ Finally
    /\ UNCHANGED <<serverVars, messages, clientNow>>

\* reader.read() rejects: catch and finally
ClientReadError(t, d) ==
    /\ turns[t].pc \in {"reading", "midFrame"}
    /\ turns' = [turns EXCEPT ![t] = Returned(@, "readError")]
    /\ Catch(d)
    /\ Finally
    /\ UNCHANGED serverVars

\* the steps of the client that answers from the network bring about
ClientProgress ==
    \E t \in 1..Len(turns) :
        \/ FetchOk(t)
        \/ \E failure \in FetchFailures, d \in Delays : FetchFail(t, failure, d)
        \/ \E chunk \in ReadChunks(Len(turns[t].sent)) : ClientRead(t, chunk)
        \/ ClientReadTail(t)
        \/ ClientReadEnd(t)
        \/ \E d \in Delays : ClientReadError(t, d)

Next ==
    \/ \E text \in {"", "hi"} : HandleSubmit(text)
    \/ ClientProgress
    \/ \E b \in Bodies : PostChat(b)
    \/ CallClassifier
    \/ \E reply \in ClassifierReplies : ClassifierReply(reply)
    \/ \E reply \in SearchReplies : SearchReply(reply)
    \/ \E reply \in CompletionReplies : CompletionReply(reply)
    \/ \E c \in ChunkShapes : UpstreamChunk(c)
    \/ \E kind \in LineKinds : UpstreamSplitHead(kind)
    \/ UpstreamSplitTail
    \/ UpstreamClose
    \/ UpstreamError
    \/ CallerDisconnect
    \/ ChatGet
    \/ HistoryGet
    \/ \E b \in PostBodies : HistoryPost(b)
    \/ HistoryDelete
    \/ \E outcome \in ProxyOutcomes : ProxyPost(outcome)
    \/ \E c \in ChunkShapes : ProxyChunk(c)
    \/ \E how \in {"closed", "errored"} : ProxyEnd(how)

Spec == Init /\ [][Next]_vars

\* the chat client alone; every fetch settles and every response stream
\* ends or fails
NextClient ==
    \/ \E text \in {"", "hi"} : HandleSubmit(text)
    \/ ClientProgress

FairSpecClient == Init /\ [][NextClient]_vars /\ WF_vars(ClientProgress)

\* two POSTs of the chat route at once: the turn, and the stores of a second
\* POST between any two of its steps
NextConc ==
    \/ \E b \in Bodies : PostChat(b)
    \/ CallClassifier
    \/ \E reply \in ClassifierReplies : ClassifierReply(reply)
    \/ \E reply \in SearchReplies : SearchReply(reply)
    \/ \E reply \in CompletionReplies : CompletionReply(reply)
    \/ \E c \in ChunkShapes : UpstreamChunk(c)
    \/ UpstreamClose
    \/ UpstreamError
    \/ CallerDisconnect
    \/ OtherPostChat
    \/ OtherSawDone

\* the second POST arrives when the history is one short of the cap, so that
\* the racing stores are the ones that start the eviction
InitConc == Init /\ Len(inMemoryChatHistory) = HistoryCap - 1

SpecConc == InitConc /\ [][NextConc]_vars

\* the same, with a clear_history request arriving during the turn
NextClear == NextConc \/ OtherClear

SpecClear == InitConc /\ [][NextClear]_vars

(***************************************************************************)
(* Properties.                                                             *)
(***************************************************************************)
\* the last n elements of log, stated pointwise
IsTailOf(history, log, n) ==
    /\ Len(history) = (IF Len(log) <= n THEN Len(log) ELSE n)
    /\ \A i \in 1..Len(history) : history[i] = log[Len(log) - Len(history) + i]

\* C1: after every sequence of appends each store holds at most HistoryCap
\* messages, and they are exactly the HistoryCap most recently appended ones in
\* append order: every well-formed append is retained as the newest element and
\* only the oldest messages are evicted.
FifoLaw ==
    /\ Len(inMemoryChatHistory) <= HistoryCap
    /\ Len(chatHistory) <= HistoryCap
    /\ IsTailOf(inMemoryChatHistory, chatAppended, HistoryCap)
    /\ IsTailOf(chatHistory, routeAppended, HistoryCap)

\* C1 witness: a turn's stream stored its assistant message in a full history,
\* so messages were evicted
FifoEvicted ==
    /\ Len(chatAppended) > HistoryCap + 1
    /\ turnStored # <<>>
    /\ Last(inMemoryChatHistory) = Last(turnStored)

\* C2 (as claimed): once the done line of a stream has been handled, the
\* assistant message the stream persisted has the concatenation of all frames
\* emitted to the caller as its content.
PersistedIsConcatenation ==
    SawDone =>
        \A i \in 1..Len(turnStored) :
            turnStored[i].content = ConcatContents(emitted)

\* C3 (as claimed): a stream whose done line has been handled has added exactly
\* one assistant message to the history.
DoneStoresExactlyOne ==
    SawDone => Len(turnStored) = 1

\* C4 (as claimed): when the completion stream fails or closes before a done
\* line, the history ends with an assistant message holding the partial text,
\* followed by a system notice.
PartialTextPersisted ==
    (pc \in {"closed", "errored"} /\ ~SawDone) =>
        /\ Len(inMemoryChatHistory) >= 2
        /\ Last(inMemoryChatHistory).role = "system"
        /\ inMemoryChatHistory[Len(inMemoryChatHistory) - 1].role = "assistant"
        /\ inMemoryChatHistory[Len(inMemoryChatHistory) - 1].content =
               ConcatContents(emitted)

\* every valid line of lines has its frame among frames
AllYielded(lines, frames) ==
    \A i \in 1..Len(lines) :
        lines[i].valid =>
            \E j \in 1..Len(frames) : frames[j] = FormatChunk(lines[i])

\* C5 (as claimed): on both chat routes every valid line received, also one
\* that shares its chunk with a malformed line, has yielded its frame to the
\* caller.
EveryValidLineYieldsDelta ==
    /\ AllYielded(received, emitted)
    /\ AllYielded(proxyReceived, proxyEmitted)

IsValidLine(line) == line.valid
IsDeltaFrame(frame) == frame.finish_reason # "error"

\* C6 (as claimed): the frames carrying deltas are, in order, exactly the
\* frames of the valid lines received: one per line, none reordered, merged,
\* duplicated or omitted.
OneFramePerValidLineInOrder ==
    LET valid == SelectSeq(received, IsValidLine)
    IN  SelectSeq(emitted, IsDeltaFrame) =
            [i \in 1..Len(valid) |-> FormatChunk(valid[i])]

\* C7 (as claimed): a frame with a non-null finish_reason is the last frame of
\* its stream, and a stream that has ended has ended with such a frame.
FinishFrameIsFinal ==
    /\ \A i \in 1..(Len(emitted) - 1) : emitted[i].finish_reason = "null"
    /\ pc = "closed" =>
           (emitted # <<>> /\ Last(emitted).finish_reason # "null")

\* C8: whenever the classifier call fails (unreachable, non-OK, a body or an
\* output that does not parse), the classification is the default: NEW_TOPIC,
\* the raw user message as searchQuery, focusOnNewInfo only.
ClassifierFallback ==
    (classifierReply.kind \in {"unreachable", "notOk", "badBody"}
        \/ (classifierReply.kind = "ok" /\ ~classifierReply.output.parses)) =>
        contextAnalysis =
            [isObject |-> TRUE, queryType |-> "NEW_TOPIC",
             explanation |-> "Default to new topic due to error",
             searchQuery |-> userQuery, shouldSummarizeInResponse |-> FALSE,
             responseStyle |->
                 [defined |-> TRUE, includeHistoryRecap |-> FALSE,
                  focusOnNewInfo |-> TRUE, connectPastToPresent |-> FALSE]]

\* C8 witness: the model's output did not parse, for a non-empty user message
ClassifierFellBack ==
    /\ pc = "searching"
    /\ classifierReply.kind = "ok"
    /\ ~classifierReply.output.parses
    /\ userQuery = "q"

\* C9: on every provider failure (network error, non-OK status, a body that
\* does not parse, results missing or not a list) searchBackend gives its
\* caller the empty list and raises nothing.
RetrievalBestEffort ==
    (searchReply.kind \in {"networkError", "notOk", "badBody"}
        \/ (searchReply.kind = "ok" /\ searchReply.payload.shape # "array")) =>
        /\ searchOutcome = [threw |-> FALSE, results |-> <<>>]
        /\ contextData.context.documents = <<>>

\* C9 witness: the turn went on to the completion call after the provider
\* answered with a payload whose results are not a list
RetrievalFailed ==
    /\ pc = "completing"
    /\ searchReply.kind = "ok"
    /\ searchReply.payload.shape = "notArray"

\* C10 (as claimed): a turn answers with an error only when its request is
\* invalid or the completion API is unavailable.
ErrorOnlyWhenInvalidOrUnavailable ==
    response.kind = "error" =>
        (body.kind = "invalid" \/ completionReply \in {"unreachable", "notOk"})

\* C11 (as claimed): when the completion API is unreachable or replies non-OK
\* the turn answers with an error response and a system error message has been
\* appended to the history.
FailedTurnLeavesSystemMessage ==
    (pc = "returned" /\ completionReply \in {"unreachable", "notOk"}) =>
        /\ response.kind = "error"
        /\ inMemoryChatHistory # <<>>
        /\ Last(inMemoryChatHistory).role = "system"

\* C12 (as claimed): a chat request without a message is rejected at once: it
\* is answered with an error, no user message is appended and neither the
\* classifier, the retrieval gateway nor the completion API is called.
MissingMessageRejected ==
    (body.kind = "chat" /\ body.message = "") =>
        /\ pc = "returned"
        /\ response.kind = "error"
        /\ \A i \in 1..Len(chatAppended) : chatAppended[i].content # ""
        /\ classifierPrompt = NoPrompt
        /\ searchCalls = <<>>
        /\ completionReply = "none"

\* C14 (as claimed): after a clear (clear_history on the chat route, DELETE on
\* the history route) the history holds exactly one message, a system notice.
ClearLeavesSystemNotice ==
    /\ (body.kind = "clear" /\ pc = "returned") =>
           (Len(inMemoryChatHistory) = 1 /\ inMemoryChatHistory[1].role = "system")
    /\ routeResponse = "cleared" =>
           (Len(chatHistory) = 1 /\ chatHistory[1].role = "system")

\* C15: for a HISTORY_QUERY classification buildContext makes no retrieval
\* call, and its context holds no document and only the history it read,
\* framed as "Chat History to Summarize".
HistoryQueryContext ==
    (classifierReply.kind # "none" /\ contextAnalysis.queryType = "HISTORY_QUERY") =>
        /\ searchCalls = <<>>
        /\ searchReply.kind = "none"
        /\ contextData.context.documents = <<>>
        /\ contextData.context.framing =
               IF contextData.context.history = <<>>
               THEN "none" ELSE "Chat History to Summarize"
        /\ pc # "searching"

\* C15 witness: the completion call is under way for a HISTORY_QUERY whose
\* context holds the history read
HistoryQueryAssembled ==
    /\ pc = "completing"
    /\ contextAnalysis.queryType = "HISTORY_QUERY"
    /\ contextData.context.framing = "Chat History to Summarize"
    /\ contextData.context.history # <<>>

\* C20 (as claimed): whatever the model returned, the classification handed to
\* buildContext and askOllama has one of the four query types and a
\* responseStyle with its three flags.
ClassificationWellTyped ==
    classifierReply.kind # "none" =>
        /\ contextData.analysis.isObject
        /\ contextData.analysis.queryType \in QueryTypes
        /\ contextData.analysis.responseStyle.defined

\* C13: a history read returns at most ReadLimit messages, and they are the
\* most recently appended messages of the store it read, in append order.
ReadIsRecentTail ==
    /\ Len(recentHistory) <= ReadLimit
    /\ IsTailOf(recentHistory, readFrom, ReadLimit)

\* C13 witness: a GET read a store holding more than ReadLimit messages
ReadTruncated ==
    /\ Len(readFrom) > ReadLimit
    /\ Len(recentHistory) = ReadLimit
    /\ Last(recentHistory) = Last(readFrom)

\* C16: the k documents of the context that goes into the prompt of the
\* completion call carry the indices 1..k in order, and the document with
\* index i is the i-th result searchBackend returned in the turn.
CitationIndicesSequential ==
    pc = "completing" =>
        LET documents == contextData.context.documents
        IN  /\ \A i \in 1..Len(documents) : documents[i].index = i
            /\ documents # <<>> => Len(documents) = Len(searchOutcome.results)
            /\ \A i \in 1..Len(documents) :
                   /\ documents[i].title = searchOutcome.results[i].title
                   /\ documents[i].url = searchOutcome.results[i].url
                   /\ documents[i].content = searchOutcome.results[i].content

\* C16 witness: the completion call is under way with MaxResults documents
DocumentsCited ==
    /\ pc = "completing"
    /\ Len(contextData.context.documents) = MaxResults
    /\ MaxResults > 1

\* the number of places of history that hold message m
Occurrences(history, m) == Cardinality({i \in 1..Len(history) : history[i] = m})

\* C17: with a second POST storing between the steps of the turn, the history
\* is still the HistoryCap most recently appended messages in append order, and
\* every message either POST stored is in it exactly once.
AppendsSerialized ==
    (otherStored # <<>> /\ body.kind # "clear") =>
        /\ Len(inMemoryChatHistory) <= HistoryCap
        /\ IsTailOf(inMemoryChatHistory, chatAppended, HistoryCap)
        /\ \A i \in 1..Len(otherStored) :
               Occurrences(inMemoryChatHistory, otherStored[i]) = 1
        /\ \A i \in 1..Len(turnStored) :
               Occurrences(inMemoryChatHistory, turnStored[i]) = 1
        /\ \A i \in 1..(Len(inMemoryChatHistory) - 1) :
               inMemoryChatHistory[i].id < inMemoryChatHistory[i + 1].id

\* C17 witness: the second POST stored its user message between the turn's
\* user message and the turn's assistant message, in a history that was full
RacingAppends ==
    /\ Len(chatAppended) > HistoryCap
    /\ turnStored # <<>>
    /\ otherStored # <<>>
    /\ body.kind = "chat"
    /\ otherStored[1].id < turnStored[1].id
    /\ \E i \in 1..Len(inMemoryChatHistory) :
           /\ inMemoryChatHistory[i].role = "user"
           /\ inMemoryChatHistory[i].content = body.message
           /\ inMemoryChatHistory[i].id < otherStored[1].id

\* C18 (as claimed): when the caller disconnects before the done line, the text
\* emitted so far is in the history as an assistant message.
DisconnectPersistsPartial ==
    (pc = "cancelled" /\ ~SawDone /\ emitted # <<>>) =>
        \E i \in 1..Len(inMemoryChatHistory) :
            /\ inMemoryChatHistory[i].role = "assistant"
            /\ inMemoryChatHistory[i].id \in {turnStored[k].id : k \in 1..Len(turnStored)}
            /\ inMemoryChatHistory[i].content = ConcatContents(emitted)

\* the order of the stages of a turn
StageOrder ==
    <<"append user", "classifier", "context assembler", "prompt builder",
      "streaming client", "reassembler">>

\* C19: the stages a turn has started are an initial part of StageOrder, so
\* they start in that order and each at most once; while the call of a stage
\* is pending no later stage has started.
StagesInOrder ==
    /\ Len(stages) <= Len(StageOrder)
    /\ \A i \in 1..Len(stages) : stages[i] = StageOrder[i]
    /\ pc = "awaitStore" => Last(stages) = "append user"
    /\ pc = "classifying" => Last(stages) = "classifier"
    /\ pc = "searching" => Last(stages) = "context assembler"
    /\ pc = "completing" => Last(stages) = "streaming client"
    /\ pc = "streaming" => Last(stages) = "reassembler"

\* C19 witness: a turn went through all six stages and its stream is closed
AllStagesRan ==
    /\ stages = StageOrder
    /\ pc = "closed"
    /\ emitted # <<>>

\* the number of text entries of a context: history messages and documents
ContextSize(context) == Len(context.history) + Len(context.documents)

\* C21 (as claimed), for a cap that the largest history window together with
\* the largest payload exceeds: the context handed to askOllama holds fewer
\* entries than the two together, documents having been dropped first.
ContextWithinCap ==
    pc = "completing" =>
        ContextSize(contextData.context) < ReadLimit + ManyResults

\* C22: for a classification with a query type other than HISTORY_QUERY
\* buildContext calls searchBackend exactly once, with the classification's
\* searchQuery or, when that is empty, with the user's message; after a
\* classifier fallback the call is made with the user's message.
RetrievalCalledOnce ==
    (/\ classifierReply.kind # "none"
     /\ contextAnalysis.isObject
     /\ contextAnalysis.queryType # "HISTORY_QUERY") =>
        /\ Len(searchCalls) = 1
        /\ searchCalls[1] = IF contextAnalysis.searchQuery = ""
                            THEN userQuery ELSE contextAnalysis.searchQuery
        /\ ClassifierThrows(classifierReply) => searchCalls[1] = userQuery

\* C22 witness: the model gave no searchQuery and the retrieval call was made
\* with the user's message
RetrievalWithRawMessage ==
    /\ pc = "completing"
    /\ classifierReply.kind = "ok"
    /\ contextAnalysis.searchQuery = ""
    /\ userQuery = "q"
    /\ searchCalls = <<"q">>

\* C23 (as claimed): searchBackend never returns more than 10 documents.
ResultsCapped ==
    Len(searchOutcome.results) <= 10

\* C28 (as claimed): once a clear_history request has run during a turn, the
\* history holds no message that the turn's stream stored.
ClearedHistoryStaysClean ==
    clearedAt # "none" =>
        \A i \in 1..Len(inMemoryChatHistory) :
            \A k \in 1..Len(turnStored) :
                inMemoryChatHistory[i].id # turnStored[k].id

\* C30 (as claimed): the history window the classifier and buildContext were
\* given in a turn holds the turn's user message, whatever other requests did.
UserMessageInWindow ==
    /\ classifierPrompt # NoPrompt => classifierPrompt.historyLength > 0
    /\ (classifierReply.kind # "none" /\ ~BuildContextThrows(contextAnalysis)) =>
           \E i \in 1..Len(contextData.context.history) :
               /\ contextData.context.history[i].role = "user"
               /\ contextData.context.history[i].content = userQuery

\* C27 (as claimed): a line of the completion stream that arrived cut in two
\* by a chunk boundary has yielded exactly one frame, carrying its content.
SplitLineYieldsOneDelta ==
    (split.state = "whole" /\ split.line.content # "") =>
        Cardinality({i \in 1..Len(emitted) :
                        emitted[i].content = split.line.content}) = 1

\* every message of new that old held under the same id is as it was in old
RetainedUnchanged(old, new) ==
    LET oldSet == {old[i] : i \in 1..Len(old)}
        oldIds == {old[i].id : i \in 1..Len(old)}
    IN  \/ new = old
        \/ \A j \in 1..Len(new) : new[j].id \in oldIds => new[j] \in oldSet

\* handleSubmit is between its fetch and its return
InFlight(turn) == turn.pc \in {"fetching", "reading", "midFrame"}

\* m is the bot message of a turn whose stream is being read
InProgressBot(m) ==
    /\ m.type = "bot"
    /\ \E t \in 1..Len(turns) :
           turns[t].pc \in {"reading", "midFrame"} /\ turns[t].botMessageId = m.metaId

\* C24: no step changes a message that a history store retains; in the chat
\* client's list a step changes at most the content of the bot message of the
\* stream being read, and no other message.
MessagesImmutable ==
    [][/\ RetainedUnchanged(inMemoryChatHistory, inMemoryChatHistory')
       /\ RetainedUnchanged(chatHistory, chatHistory')
       /\ Len(messages') >= Len(messages)
       /\ \A i \in 1..Len(messages) :
              \/ messages'[i] = messages[i]
              \/ /\ InProgressBot(messages[i])
                 /\ messages'[i] = [messages[i] EXCEPT !.content = messages'[i].content]
      ]_vars

\* C24 witness: the stream of a second submit has updated its bot message and
\* the bot message of the first submit still holds another text
SecondStreamUpdated ==
    /\ Len(turns) = 2
    /\ turns[2].pc = "reading"
    /\ turns[2].fullResponse # ""
    /\ \E i \in 1..Len(messages) :
           /\ messages[i].metaId = turns[1].botMessageId
           /\ messages[i].content # ""
           /\ messages[i].content # turns[2].fullResponse

\* C25: at most one call of handleSubmit is in flight, and isProcessing is
\* set while it is; every call has a bot message of its own, and while its
\* stream is read that message holds what the stream has accumulated.
OneStreamPerBotMessage ==
    /\ Cardinality({t \in 1..Len(turns) : InFlight(turns[t])}) <= 1
    /\ \A t \in 1..Len(turns) : InFlight(turns[t]) => isProcessing
    /\ \A t, u \in 1..Len(turns) :
           t # u => turns[t].botMessageId # turns[u].botMessageId
    /\ \A t \in 1..Len(turns) :
           LET own == {i \in 1..Len(messages) :
                          /\ messages[i].type = "bot"
                          /\ messages[i].metaId = turns[t].botMessageId}
           IN  /\ Cardinality(own) = 1
               /\ turns[t].pc \in {"reading", "midFrame"} =>
                      \A i \in own : messages[i].content = turns[t].fullResponse

\* C25 witness: a second submit went through after the first had returned,
\* and its stream is in the middle of a frame
SecondSubmitAfterFirst ==
    /\ Len(turns) = 2
    /\ turns[1].pc = "done"
    /\ turns[2].pc = "midFrame"
    /\ isProcessing

\* C26 (as claimed): between two reads the text the client has accumulated is
\* the concatenation of the deltas of the frames the route has sent.
ClientTextComplete ==
    \A t \in 1..Len(turns) :
        turns[t].pc = "reading" =>
            turns[t].fullResponse = ConcatContents(turns[t].sent)

\* position i of the client's list holds the error message of the catch block
IsErrorMessage(i) ==
    /\ messages[i].type = "system"
    /\ messages[i].content = "Sorry, I encountered an error processing your request."

=============================================================================
